---- MODULE Spec2Model ----
(***************************************************************************)
(* Model of fstd2nc.mixins.series.Series (src/fstd2nc/mixins/series.py).   *)
(*                                                                         *)
(* Series.__init__ classifies the records of the header table; _makevars   *)
(* re-labels the axes of the variables built by the generic pipeline.      *)
(* Axis objects live in a heap (objs) and are referred to by their index,  *)
(* so that sharing by reference and in-place mutation are visible.         *)
(***************************************************************************)
EXTENDS Integers, Sequences, FiniteSets, TLC

VARIABLES
  pc,           \* position in the program
  idx,          \* index of the current loop iteration
  headers,      \* the record table (self._headers), one record per row
  opts,         \* keyword options of the constructor / sibling mixins
  files,        \* the auxiliary records held by the record store
  objs,         \* heap of axis / dimension objects
  coords,       \* heap of coordinate variables (_var_type objects)
  varlist,      \* self._varlist
  station,      \* local 'station' of _makevars (0 = None)
  forecast_axis,\* local 'forecast_axis' (0 = None)
  momentum,     \* local 'momentum' (0 = None)
  thermo,       \* local 'thermo' (0 = None)
  known_levels, \* dict: level count -> generic dimension
  known_squashed_forecasts, \* dict: (time, forecast) -> squashed time axis
  known_leadtimes,          \* dict: (time, forecast) -> leadtime coordinate
  known_reftimes,           \* dict: (time, forecast) -> reftime coordinate
  groups,       \* result of _iter_axes('station_id', varlist=True)
  warnings      \* messages passed to warn()

vars == <<pc, idx, headers, opts, files, objs, coords, varlist, station,
          forecast_axis, momentum, thermo, known_levels,
          known_squashed_forecasts, known_leadtimes, known_reftimes,
          groups, warnings>>

makevars_locals == <<station, forecast_axis, momentum, thermo>>
squash_caches == <<known_squashed_forecasts, known_leadtimes, known_reftimes>>

(***************************************************************************)
(* Bounds of the model.                                                    *)
(***************************************************************************)
MaxRecs == 1        \* rows of the record table
MaxVars == 2        \* variables in the variable list
NStations == 3      \* stations named by the STNS record
Resolution == 2     \* time values are counted in 1/Resolution seconds

None == 0

\* One hour, in time units.
HourUnits == 3600 * Resolution

(***************************************************************************)
(* Generic helpers.                                                        *)
(***************************************************************************)
Range(s) == {s[k] : k \in DOMAIN s}

RemoveAt(s, p) == [k \in 1..(Len(s) - 1) |-> IF k < p THEN s[k] ELSE s[k + 1]]

ReplaceAt(s, p, x) == [s EXCEPT ![p] = x]

RECURSIVE Prod(_)
Prod(s) == IF s = <<>> THEN 1 ELSE Head(s) * Prod(Tail(s))

\* Sequences over S of length 1..n.
SeqUpTo(S, n) == UNION {[1..k -> S] : k \in 1..n}

\* Division truncating toward zero, as a cast from float to integer does.
TruncDiv(a, b) == IF a >= 0 THEN a \div b ELSE -((-a) \div b)

(***************************************************************************)
(* Series.__init__ : the record classifier.                                *)
(*                                                                         *)
(* headers maps a column name to a sequence with one entry per record.     *)
(* The entries of a masked column are records [v, mask].                   *)
(***************************************************************************)
nrecs == Len(headers["typvar"])

\* np.ma.array(..., dtype='int32'): the C cast to a signed 32-bit integer.
\* Every integer the header decoder produces for ip3 lies in the int32
\* range, where the cast returns its argument.
Int32(x) ==
  IF -2147483647 - 1 <= x /\ x <= 2147483647
  THEN x
  ELSE ((x + 2147483647 + 1) % (2 * 2147483647 + 2)) - 2147483647 - 1

is_series(h, k) ==
  h["typvar"][k] = "T " /\ (h["grtyp"][k] = "+" \/ h["grtyp"][k] = "Y" \/ h["grtyp"][k] = "T")

is_split_series(h, k) ==
  h["typvar"][k] = "T " /\ h["grtyp"][k] = "+"

\* Variant : the mask is taken from is_series.
station_id_column_series(h) ==
  [k \in DOMAIN h["typvar"] |->
     [v |-> Int32(h["ip3"][k]), mask |-> ~is_series(h, k)]]

\* station_id = np.ma.array(np.array(fields['ip3']), dtype='int32')
\* station_id.mask = ~is_split_series
station_id_column(h) ==
  [k \in DOMAIN h["typvar"] |->
     [v |-> Int32(h["ip3"][k]), mask |-> ~is_split_series(h, k)]]

\* Variant : the mask the column had is dropped.
mask_series_only(h, c) ==
  [k \in DOMAIN h[c] |-> [h[c][k] EXCEPT !.mask = is_series(h, k)]]

\* fields[c].mask = np.ma.getmaskarray(fields[c]) | is_series
mask_series(h, c) ==
  [k \in DOMAIN h[c] |-> [h[c][k] EXCEPT !.mask = h[c][k].mask \/ is_series(h, k)]]

\* fields[c][is_series] = 0
zero_series(h, c) ==
  [k \in DOMAIN h[c] |-> IF is_series(h, k) THEN 0 ELSE h[c][k]]

\* The record table after the constructor has run on table h.
classified(h) ==
  [c \in (DOMAIN h) \cup {"station_id"} |->
     CASE c = "station_id" -> station_id_column(h)
       [] c \in {"leadtime", "reftime"} -> mask_series(h, c)
       [] c \in {"ig1", "ig2", "ig3", "ig4", "ip1"} -> zero_series(h, c)
       [] OTHER -> h[c]]

SeriesInit ==
  /\ pc = "new"
  /\ headers' = classified(headers)
  /\ pc' = "makevars"
  /\ UNCHANGED <<idx, opts, files, objs, coords, varlist, makevars_locals,
                 known_levels, squash_caches, groups, warnings>>

(***************************************************************************)
(* Axis and variable objects (fstd2nc.mixins._dim_type, _axis_type,        *)
(* _var_type, _iter_type).                                                 *)
(***************************************************************************)
\* _dim_type(name, length): a dimension without values.
Dim(name, n) == [name |-> name, n |-> n, vals |-> <<>>, valued |-> FALSE]

\* _axis_type(name, atts, array): an axis with values.
Axis(name, vals) == [name |-> name, n |-> Len(vals), vals |-> vals, valued |-> TRUE]

\* _var_type(name, atts, axes, array): a coordinate variable.
Coord(name, axs, array) == [name |-> name, axes |-> axs, array |-> array]

\* len(axis), for the axis object a in heap H.
AxisLen(H, a) == H[a].n

\* var.dims : the names of the axes of a variable, in order.
Dims(H, var) == [k \in DOMAIN var.axes |-> H[var.axes[k]].name]

\* dims.index(name) : the first position holding that name (0: not there).
IndexOf(dims, name) ==
  IF \E k \in DOMAIN dims : dims[k] = name
  THEN CHOOSE k \in DOMAIN dims : dims[k] = name /\ \A m \in 1..(k - 1) : dims[m] # name
  ELSE 0

\* var.getaxis(name) : the first axis of that name, or None.
GetAxis(H, var, name) ==
  LET p == IndexOf(Dims(H, var), name) IN IF p = 0 THEN None ELSE var.axes[p]

(***************************************************************************)
(* _makevars, lines 139-185 : the axis extractor.                          *)
(***************************************************************************)
\* The characters str.rstrip() removes: the code points with str.isspace().
IsSpace(c) ==
  \/ c \in {9, 10, 11, 12, 13, 28, 29, 30, 31, 32, 133, 160, 5760}
  \/ 8192 <= c /\ c <= 8202
  \/ c \in {8232, 8233, 8239, 8287, 12288}

\* The length of row r without its trailing NUL bytes (numpy drops them
\* when an element of an |S array is read).
RECURSIVE ItemLen(_)
ItemLen(r) == IF r = <<>> \/ r[Len(r)] # 0 THEN Len(r) ELSE ItemLen(SubSeq(r, 1, Len(r) - 1))

\* A continuation byte of utf-8.
Cont(r, p) == p <= Len(r) /\ 128 <= r[p] /\ r[p] <= 191

\* arr.decode() : the number of bytes of the well-formed utf-8 sequence
\* that starts at position p of r (0 : there is none).
SeqLenAt(r, p) ==
  LET b == r[p]
      second(lo, hi) == p + 1 <= Len(r) /\ lo <= r[p + 1] /\ r[p + 1] <= hi
  IN  IF b < 128 THEN 1
      ELSE IF 194 <= b /\ b <= 223
      THEN IF Cont(r, p + 1) THEN 2 ELSE 0
      ELSE IF 224 <= b /\ b <= 239
      THEN IF /\ CASE b = 224 -> second(160, 191)
                   [] b = 237 -> second(128, 159)
                   [] OTHER -> second(128, 191)
              /\ Cont(r, p + 2)
           THEN 3 ELSE 0
      ELSE IF 240 <= b /\ b <= 244
      THEN IF /\ CASE b = 240 -> second(144, 191)
                   [] b = 244 -> second(128, 143)
                   [] OTHER -> second(128, 191)
              /\ Cont(r, p + 2)
              /\ Cont(r, p + 3)
           THEN 4 ELSE 0
      ELSE 0

\* The code point of the sequence of n bytes at position p of r.
CodePointAt(r, p, n) ==
  CASE n = 1 -> r[p]
    [] n = 2 -> (r[p] - 192) * 64 + (r[p + 1] - 128)
    [] n = 3 -> (r[p] - 224) * 4096 + (r[p + 1] - 128) * 64 + (r[p + 2] - 128)
    [] OTHER -> (r[p] - 240) * 262144 + (r[p + 1] - 128) * 4096
                  + (r[p + 2] - 128) * 64 + (r[p + 3] - 128)

\* arr.decode() does not raise UnicodeDecodeError on the bytes of r from p.
RECURSIVE WellFormed(_, _)
WellFormed(r, p) ==
  \/ p > Len(r)
  \/ SeqLenAt(r, p) # 0 /\ WellFormed(r, p + SeqLenAt(r, p))

\* arr.decode() : the code points of the (well-formed) bytes of r from p.
RECURSIVE Utf8Decode(_, _)
Utf8Decode(r, p) ==
  IF p > Len(r) THEN <<>>
  ELSE <<CodePointAt(r, p, SeqLenAt(r, p))>> \o Utf8Decode(r, p + SeqLenAt(r, p))

\* The length of the string r after str.rstrip().
RECURSIVE RstripLen(_)
RstripLen(r) == IF r = <<>> \/ ~IsSpace(r[Len(r)]) THEN Len(r) ELSE RstripLen(SubSeq(r, 1, Len(r) - 1))

\* str(arr.decode()).rstrip() : the name held by row r, as code points.
StrippedName(r) ==
  LET chars == Utf8Decode(SubSeq(r, 1, ItemLen(r)), 1)
  IN  SubSeq(chars, 1, RstripLen(chars))

\* array[:] = [str(arr.decode()).rstrip() for arr in array] : each name
\* loses its trailing whitespace and is padded with NUL to the fixed width.
StripRow(r) ==
  LET name == StrippedName(r)
  IN  [k \in DOMAIN r |-> IF k <= Len(name) THEN name[k] ELSE 0]

\* Line 157 raises on row r : the bytes are not well-formed utf-8
\* (UnicodeDecodeError), or a character that is not ASCII is left after
\* rstrip() and cannot be stored back in the byte array (UnicodeEncodeError).
RowRaises(r) ==
  \/ ~WellFormed(SubSeq(r, 1, ItemLen(r)), 1)
  \/ \E k \in DOMAIN StrippedName(r) : StrippedName(r)[k] >= 128

\* Lines 150-151 : if array.flatten()[0] >= 128: array -= 128
Shifted(d) ==
  IF d[1][1] >= 128
  THEN [k \in DOMAIN d |-> [m \in DOMAIN d[k] |-> (d[k][m] - 128) % 256]]
  ELSE d

\* Lines 144-158 : the station names decoded from the (transposed) bytes
\* of the STNS record.
DecodeStations(d) == [k \in DOMAIN Shifted(d) |-> StripRow(Shifted(d)[k])]

\* Line 157 raises on some row of the record.
DecodeRaises(d) == \E k \in DOMAIN d : RowRaises(Shifted(d)[k])

\* header['d'].squeeze() : the dimensions of length 1 are removed.
Squeeze(shape) == SelectSeq(shape, LAMBDA n : n # 1)

\* Lines 178-182 : the values of a vertical record, or <<>> when the record
\* does not reduce to one dimension.
VerticalValues(rec, missing_bottom) ==
  LET shape == Squeeze(rec.shape)
      cut == IF missing_bottom THEN SubSeq(rec.d, 1, Len(rec.d) - 1) ELSE rec.d
  IN  IF Len(shape) # 1 THEN <<>> ELSE cut

VerticalUsable(rec) == rec.present /\ Len(Squeeze(rec.shape)) = 1

\* Lines 180-181 : array[:-1] is taken before the test of line 182 and
\* raises IndexError on an array that squeezed to 0 dimensions.
VerticalRaises(rec, missing_bottom) ==
  rec.present /\ missing_bottom /\ Squeeze(rec.shape) = <<>>

\* Lines 142-185 : the extraction ends with an exception.
ExtractRaises ==
  \/ files.stns.present /\ DecodeRaises(files.stns.d)
  \/ VerticalRaises(files.sh, opts.missing_bottom_profile_level)
  \/ VerticalRaises(files.sv, opts.missing_bottom_profile_level)

\* Lines 170-171 : array = forecast_header['d'].flatten() - starting_hour
ForecastHours(rec) == [k \in DOMAIN rec.d |-> rec.d[k] - rec.dateo_hour * HourUnits]

(***************************************************************************)
(* Control flow of _makevars : one action per loop iteration.              *)
(***************************************************************************)
\* The (variable, axis) pairs of the axes called name, in list order.
RECURSIVE NamedPairs(_, _, _, _)
NamedPairs(H, vl, name, v) ==
  IF v > Len(vl) THEN <<>>
  ELSE LET hits == SelectSeq(vl[v].axes, LAMBDA a : H[a].name = name)
       IN  [k \in 1..Len(hits) |-> <<v, hits[k]>>] \o NamedPairs(H, vl, name, v + 1)

RECURSIVE Dedup(_)
Dedup(s) ==
  IF s = <<>> THEN <<>>
  ELSE LET r == Dedup(SubSeq(s, 1, Len(s) - 1))
           x == s[Len(s)]
       IN  IF x \in Range(r) THEN r ELSE Append(r, x)

\* self._iter_axes(name, varlist=True) : each distinct axis object of that
\* name with the variables that hold it, in order of first appearance.
IterAxes(H, vl, name) ==
  LET pairs == NamedPairs(H, vl, name, 1)
      ids == Dedup([k \in DOMAIN pairs |-> pairs[k][2]])
  IN  [g \in DOMAIN ids |->
         [axis |-> ids[g],
          vars |-> LET mine == SelectSeq(pairs, LAMBDA q : q[2] = ids[g])
                   IN  [k \in DOMAIN mine |-> mine[k][1]]]]

\* Lines 292-293 : entering the station coordinate binder.
EnterBinder(H, vl, st) ==
  LET g == IF st = None THEN <<>> ELSE IterAxes(H, vl, "station_id")
  IN  IF g = <<>>
      THEN [pc |-> "done", idx |-> 0, groups |-> <<>>]
      ELSE [pc |-> "bind", idx |-> 1, groups |-> g]

\* The position that follows iteration i of the loop 'phase' over varlist.
NextStep(phase, i, H, vl, st) ==
  IF i < Len(vl) THEN [pc |-> phase, idx |-> i + 1, groups |-> <<>>]
  ELSE CASE phase = "rename" -> [pc |-> "droplevel", idx |-> 1, groups |-> <<>>]
         [] phase = "droplevel" -> [pc |-> "remap", idx |-> 1, groups |-> <<>>]
         [] phase = "remap" ->
              IF opts.squash_forecasts
              THEN [pc |-> "squash", idx |-> 1, groups |-> <<>>]
              ELSE EnterBinder(H, vl, st)
         [] OTHER -> EnterBinder(H, vl, st)

\* Lines 133-185 : station names, forecast axis and vertical axes are read
\* from the record store.  An exception ends _makevars: the locals are lost
\* and the variable list stays as the generic pipeline built it.
Extract ==
  /\ pc = "makevars"
  /\ IF ExtractRaises
     THEN /\ pc' = "raised"
          /\ UNCHANGED <<idx, objs, coords, makevars_locals, groups>>
     ELSE
     LET names == DecodeStations(files.stns.d)
         objs1 == IF files.stns.present
                  THEN objs \o <<Dim("station_id", Len(names)),
                                 Dim("station_strlen", Len(names[1]))>>
                  ELSE objs
         coords1 == IF files.stns.present
                    THEN Append(coords, Coord("station", <<Len(objs) + 1, Len(objs) + 2>>, names))
                    ELSE coords
         st == IF files.stns.present THEN Len(coords1) ELSE None
         objs2 == IF files.hh.present
                  THEN Append(objs1, Axis("forecast", ForecastHours(files.hh)))
                  ELSE objs1
         fa == IF files.hh.present THEN Len(objs2) ELSE None
         sh_ok == VerticalUsable(files.sh)
         objs3 == IF sh_ok
                  THEN Append(objs2, Axis("level", VerticalValues(files.sh, opts.missing_bottom_profile_level)))
                  ELSE objs2
         th == IF sh_ok THEN Len(objs3) ELSE None
         sv_ok == VerticalUsable(files.sv)
         objs4 == IF sv_ok
                  THEN Append(objs3, Axis("level", VerticalValues(files.sv, opts.missing_bottom_profile_level)))
                  ELSE objs3
         mo == IF sv_ok THEN Len(objs4) ELSE None
         nxt == IF varlist = <<>>
                THEN EnterBinder(objs4, varlist, st)
                ELSE [pc |-> "rename", idx |-> 1, groups |-> <<>>]
     IN  /\ objs' = objs4
         /\ coords' = coords1
         /\ station' = st
         /\ forecast_axis' = fa
         /\ thermo' = th
         /\ momentum' = mo
         /\ pc' = nxt.pc
         /\ idx' = nxt.idx
         /\ groups' = nxt.groups
  /\ UNCHANGED <<headers, opts, files, varlist, known_levels, squash_caches, warnings>>

(***************************************************************************)
(* _makevars, lines 188-204 : station rename and degenerate level drop.    *)
(***************************************************************************)
IsY(var) == var.typvar = "T" /\ var.grtyp = "Y"

IsProfile(var) == var.typvar = "T" /\ var.grtyp = "+"

\* station.shape[0]
NumStations(C, st) == Len(C[st].array)

\* Lines 191-195 : the 'i' axis of a 'Y' variable becomes the station axis.
RenameStationVar(H, C, st, var) ==
  LET dims == Dims(H, var)
      iaxis == GetAxis(H, var, "i")
  IN  IF IsY(var) /\ iaxis # None /\ st # None /\ AxisLen(H, iaxis) = NumStations(C, st)
      THEN [var EXCEPT !.axes = ReplaceAt(var.axes, IndexOf(dims, "i"), C[st].axes[1])]
      ELSE var

RenameStation ==
  /\ pc = "rename"
  /\ varlist' = [varlist EXCEPT ![idx] = RenameStationVar(objs, coords, station, varlist[idx])]
  /\ LET nxt == NextStep("rename", idx, objs, varlist', station)
     IN  pc' = nxt.pc /\ idx' = nxt.idx /\ groups' = nxt.groups
  /\ UNCHANGED <<headers, opts, files, objs, coords, makevars_locals,
                 known_levels, squash_caches, warnings>>

\* Variant : record_id is not squeezed.
DropLevelVar_unsqueezed(H, var) ==
  LET dims == Dims(H, var)
      p == IndexOf(dims, "level")
  IN  IF IsProfile(var) /\ p # 0
      THEN [var EXCEPT !.axes = RemoveAt(var.axes, p)]
      ELSE var

\* Lines 200-204 : the 'level' axis that comes from ip1 is squeezed out of
\* record_id and removed from the axes.  (ip1 is 0 for every series record,
\* so this axis has one value.)
DropLevelVar(H, var) ==
  LET dims == Dims(H, var)
      p == IndexOf(dims, "level")
  IN  IF IsProfile(var) /\ p # 0
      THEN [var EXCEPT !.record_id = RemoveAt(var.record_id, p),
                       !.axes = RemoveAt(var.axes, p)]
      ELSE var

DropLevel ==
  /\ pc = "droplevel"
  /\ varlist' = [varlist EXCEPT ![idx] = DropLevelVar(objs, varlist[idx])]
  /\ LET nxt == NextStep("droplevel", idx, objs, varlist', station)
     IN  pc' = nxt.pc /\ idx' = nxt.idx /\ groups' = nxt.groups
  /\ UNCHANGED <<headers, opts, files, objs, coords, makevars_locals,
                 known_levels, squash_caches, warnings>>

(***************************************************************************)
(* _makevars, lines 207-253 : forecast and vertical level remapping.       *)
(***************************************************************************)
Warning(msg, name) == [msg |-> msg, var |-> name]

\* Lines 217-219 : the 'j' axis becomes the forecast axis.
RemapForecast(H, fa, var) ==
  LET dims == Dims(H, var)
      jaxis == GetAxis(H, var, "j")
  IN  IF jaxis # None /\ fa # None /\ AxisLen(H, jaxis) = AxisLen(H, fa)
      THEN [var EXCEPT !.axes = ReplaceAt(var.axes, IndexOf(dims, "j"), fa)]
      ELSE var

\* Line 231 : level = iaxis ; level.name = 'level'
RenameInPlace(H, a) == [H EXCEPT ![a].name = "level"]

\* Lines 246-248 : the generic dimension cached for nlev levels.
GenericLevels(H, kl, nlev) ==
  IF nlev \in DOMAIN kl
  THEN [objs |-> H, known |-> kl]
  ELSE [objs |-> Append(H, Dim("level", nlev)), known |-> (nlev :> (Len(H) + 1)) @@ kl]

\* Lines 223-253 : the 'i' axis of profile variable var (after its 'j' axis
\* was handled), whose dims were 'dims' at line 214.
RemapLevel(H, dims, var, mo, th, kl, w) ==
  LET iaxis == GetAxis(H, var, "i")
      ip == IndexOf(dims, "i")
      same == [var |-> var, objs |-> H, known |-> kl, warnings |-> w]
  IN  IF iaxis = None THEN same
      ELSE IF AxisLen(H, iaxis) = 1
      THEN [same EXCEPT !.var = [var EXCEPT !.axes = RemoveAt(var.axes, ip)]]
      ELSE
        LET H1 == RenameInPlace(H, iaxis)
            in_m == var.name \in opts.momentum_vars /\ mo # None
            level1 == IF in_m /\ AxisLen(H1, iaxis) = AxisLen(H1, mo) THEN mo ELSE iaxis
            w1 == IF in_m /\ AxisLen(H1, iaxis) # AxisLen(H1, mo)
                  THEN Append(w, Warning("Wrong number of momentum levels found in the data.", ""))
                  ELSE w
            in_t == var.name \in opts.thermo_vars /\ th # None
            level2 == IF in_t /\ AxisLen(H1, level1) = AxisLen(H1, th) THEN th ELSE level1
            w2 == IF in_t /\ AxisLen(H1, level1) # AxisLen(H1, th)
                  THEN Append(w1, Warning("Wrong number of thermodynamic levels found in the data.", ""))
                  ELSE w1
        IN  IF level2 = iaxis
            THEN LET gen == GenericLevels(H1, kl, AxisLen(H1, level2))
                 IN  [var |-> [var EXCEPT !.axes = ReplaceAt(var.axes, ip, gen.known[AxisLen(H1, level2)])],
                      objs |-> gen.objs,
                      known |-> gen.known,
                      warnings |-> Append(w2, Warning("Unable to find the vertical coordinates for %s.", var.name))]
            ELSE [var |-> [var EXCEPT !.axes = ReplaceAt(var.axes, ip, level2), !.kind = 5],
                  objs |-> H1,
                  known |-> kl,
                  warnings |-> w2]

\* Lines 209-253 : one iteration of the loop.
RemapVar(H, var, fa, mo, th, kl, w) ==
  IF ~IsProfile(var)
  THEN [var |-> var, objs |-> H, known |-> kl, warnings |-> w]
  ELSE RemapLevel(H, Dims(H, var), RemapForecast(H, fa, var), mo, th, kl, w)

Remap ==
  /\ pc = "remap"
  /\ LET r == RemapVar(objs, varlist[idx], forecast_axis, momentum, thermo, known_levels, warnings)
         vl == [varlist EXCEPT ![idx] = r.var]
         nxt == NextStep("remap", idx, r.objs, vl, station)
     IN  /\ varlist' = vl
         /\ objs' = r.objs
         /\ known_levels' = r.known
         /\ warnings' = r.warnings
         /\ pc' = nxt.pc /\ idx' = nxt.idx /\ groups' = nxt.groups
  /\ UNCHANGED <<headers, opts, files, coords, makevars_locals, squash_caches>>

(***************************************************************************)
(* _makevars, lines 255-289 : squashing forecasts into validity times.     *)
(* Instants and durations are counted in 1/Resolution seconds, forecast    *)
(* hours in 1/HourUnits hours.                                             *)
(***************************************************************************)
\* Line 275 : np.datetime64(time0, 's') : the instant in whole seconds,
\* rounded down.
ToSeconds(t) == t \div Resolution

\* Variant : hours taken for minutes.
ForecastSeconds_minutes(h) == TruncDiv(h * 60, HourUnits)

\* Line 277 : np.array(forecast.array*3600, 'timedelta64[s]') : the cast
\* drops the fraction of a second.
ForecastSeconds(h) == TruncDiv(h * 3600, HourUnits)

\* Line 278 : squashed_times_array = time0 + forecast_timedelta
SquashedTimes(t0, hours) ==
  [k \in DOMAIN hours |-> (ToSeconds(t0) + ForecastSeconds(hours[k])) * Resolution]

\* Variant : the cache is not consulted.
SquashEntry_uncached(H, C, key, ks, kl, kr) ==
  LET t0 == H[key[1]].vals[1]
      hours == H[key[2]].vals
      tid == Len(H) + 1
  IN  [objs |-> Append(H, Axis("time", SquashedTimes(t0, hours))),
       coords |-> C \o <<Coord("leadtime", <<tid>>, hours),
                          Coord("reftime", <<>>, <<ToSeconds(t0) * Resolution>>)>>,
       ks |-> (key :> tid) @@ ks,
       kl |-> (key :> (Len(C) + 1)) @@ kl,
       kr |-> (key :> (Len(C) + 2)) @@ kr]

\* Lines 272-286 : the cache entries for key, created when missing.
SquashEntry(H, C, key, ks, kl, kr) ==
  IF key \in DOMAIN ks
  THEN [objs |-> H, coords |-> C, ks |-> ks, kl |-> kl, kr |-> kr]
  ELSE LET t0 == H[key[1]].vals[1]
           hours == H[key[2]].vals
           tid == Len(H) + 1
       IN  [objs |-> Append(H, Axis("time", SquashedTimes(t0, hours))),
            coords |-> C \o <<Coord("leadtime", <<tid>>, hours),
                               Coord("reftime", <<>>, <<ToSeconds(t0) * Resolution>>)>>,
            ks |-> (key :> tid) @@ ks,
            kl |-> (key :> (Len(C) + 1)) @@ kl,
            kr |-> (key :> (Len(C) + 2)) @@ kr]

\* Lines 263-289 : one iteration of the loop.
SquashVar(H, C, var, ks, kl, kr, w) ==
  LET time == GetAxis(H, var, "time")
      forecast == GetAxis(H, var, "forecast")
      same == [var |-> var, objs |-> H, coords |-> C, ks |-> ks, kl |-> kl, kr |-> kr, warnings |-> w]
  IN  IF time = None \/ forecast = None THEN same
      ELSE IF AxisLen(H, time) # 1
      THEN [same EXCEPT !.warnings = Append(w, Warning("Can't use datev for timeseries data with multiple dates of origin.  Try re-running with the --dateo option.", ""))]
      ELSE
        LET tp == IndexOf(Dims(H, var), "time")
            var1 == [var EXCEPT !.record_id = RemoveAt(var.record_id, tp),
                                !.axes = RemoveAt(var.axes, tp)]
            key == <<time, forecast>>
            e == SquashEntry(H, C, key, ks, kl, kr)
            fp == IndexOf(Dims(e.objs, var1), "forecast")
        IN  [var |-> [var1 EXCEPT !.axes = ReplaceAt(var1.axes, fp, e.ks[key]),
                                  !.deps = var1.deps \o <<e.kl[key], e.kr[key]>>],
             objs |-> e.objs, coords |-> e.coords,
             ks |-> e.ks, kl |-> e.kl, kr |-> e.kr, warnings |-> w]

Squash ==
  /\ pc = "squash"
  /\ LET r == SquashVar(objs, coords, varlist[idx], known_squashed_forecasts,
                        known_leadtimes, known_reftimes, warnings)
         vl == [varlist EXCEPT ![idx] = r.var]
         nxt == NextStep("squash", idx, r.objs, vl, station)
     IN  /\ varlist' = vl
         /\ objs' = r.objs
         /\ coords' = r.coords
         /\ known_squashed_forecasts' = r.ks
         /\ known_leadtimes' = r.kl
         /\ known_reftimes' = r.kr
         /\ warnings' = r.warnings
         /\ pc' = nxt.pc /\ idx' = nxt.idx /\ groups' = nxt.groups
  /\ UNCHANGED <<headers, opts, files, makevars_locals, known_levels>>

(***************************************************************************)
(* _makevars, lines 291-313 : the station coordinate binder.               *)
(***************************************************************************)
\* station.array[indices,:] : row i (counted from 0, a negative index
\* counting from the end) of the station names.
TakeRow(rows, i) == IF i >= 0 THEN rows[i + 1] ELSE rows[Len(rows) + i + 1]

\* Variant : the station numbers are shifted by two.
StationSubset_shifted(rows, ids) == [k \in DOMAIN ids |-> TakeRow(rows, ids[k] - 2)]

\* Lines 305-306 : indices = station_id.array - 1 ; station.array[indices,:]
StationSubset(rows, ids) == [k \in DOMAIN ids |-> TakeRow(rows, ids[k] - 1)]

\* Lines 297-298 : the variables of the group take the canonical axis.
RebindCanonical(H, vl, members, canon) ==
  [v \in DOMAIN vl |->
     IF v \in Range(members)
     THEN [vl[v] EXCEPT !.axes = ReplaceAt(vl[v].axes, IndexOf(Dims(H, vl[v]), "station_id"), canon)]
     ELSE vl[v]]

\* Lines 312-313 : the coordinate is appended to the deps of each variable.
AttachCoord(vl, members, c) ==
  [v \in DOMAIN vl |->
     LET times == Cardinality({k \in DOMAIN members : members[k] = v})
     IN  IF times = 0 THEN vl[v]
         ELSE [vl[v] EXCEPT !.deps = vl[v].deps \o [k \in 1..times |-> c]]]

\* Lines 293-313 : one iteration of the loop, for group g.
BindGroup(H, C, vl, st, g) ==
  IF AxisLen(H, g.axis) = NumStations(C, st)
  THEN [objs |-> H, coords |-> C,
        varlist |-> AttachCoord(RebindCanonical(H, vl, g.vars, C[st].axes[1]), g.vars, st)]
  ELSE LET sid == Len(H) + 1
           c == Coord("station", <<sid, C[st].axes[2]>>,
                      StationSubset(C[st].array, H[g.axis].vals))
       IN  [objs |-> Append(H, Axis("station_id", H[g.axis].vals)),
            coords |-> Append(C, c),
            varlist |-> AttachCoord(vl, g.vars, Len(C) + 1)]

Bind ==
  /\ pc = "bind"
  /\ LET r == BindGroup(objs, coords, varlist, station, groups[idx])
     IN  /\ objs' = r.objs
         /\ coords' = r.coords
         /\ varlist' = r.varlist
  /\ IF idx < Len(groups)
     THEN pc' = pc /\ idx' = idx + 1
     ELSE pc' = "done" /\ idx' = 0
  /\ UNCHANGED <<headers, opts, files, makevars_locals, known_levels,
                 squash_caches, groups, warnings>>

(***************************************************************************)
(* Inputs : the state after the generic pipeline has built the record      *)
(* table and the variable list.                                            *)
(***************************************************************************)
Iota(n) == [k \in 1..n |-> k]

\* The station numbers n, 1, 2, ..., n-1.
Rotated(n) == [k \in 1..n |-> IF k = 1 THEN n ELSE k - 1]

TimeA == 100 * Resolution
TimeB == 200 * Resolution

\* The axis objects that exist when _makevars starts.
RawAxes ==
  << Axis("time", <<TimeA>>),                \* 1
     Axis("time", <<TimeB>>),                \* 2
     Axis("time", <<TimeA, TimeB>>),         \* 3
     Axis("level", <<0>>),                   \* 4
     Axis("station_id", Iota(NStations)),    \* 5
     Axis("station_id", Rotated(NStations)), \* 6
     Axis("station_id", <<NStations, 1>>),   \* 7
     Axis("station_id", <<2>>),              \* 8
     Dim("j", 2),                            \* 9
     Dim("j", 3),                            \* 10
     Dim("i", 1),                            \* 11
     Dim("i", 2),                            \* 12
     Dim("i", 3),                            \* 13
     Dim("i", 3),                            \* 14
     Dim("i", NStations),                    \* 15
     Axis("forecast", <<0, 6 * HourUnits>>) >> \* 16

Lens(H, axs) == [k \in DOMAIN axs |-> AxisLen(H, axs[k])]

\* An _iter_type variable : outer axes index record_id, inner axes span one
\* record of nrec values.
Var(name, typvar, grtyp, outer, inner) ==
  [name |-> name, typvar |-> typvar, grtyp |-> grtyp,
   axes |-> outer \o inner,
   record_id |-> Lens(RawAxes, outer),
   nrec |-> Prod(Lens(RawAxes, inner)),
   deps |-> <<>>,
   kind |-> None]

ProfileVar(name, sid, time, j, i) == Var(name, "T", "+", <<sid, time, 4>>, <<j, i>>)

YVar(name, time, i) == Var(name, "T", "Y", <<time>>, <<i>>)

PlainVar(name, time, j, i) == Var(name, "P", "Z", <<time, 4>>, <<j, i>>)

Absent == [present |-> FALSE, d |-> <<>>, shape |-> <<>>, dateo_hour |-> 0]

Record1D(d) == [present |-> TRUE, d |-> d, shape |-> <<Len(d), 1>>, dateo_hour |-> 0]

Record2D == [present |-> TRUE, d |-> <<1, 2, 3, 4>>, shape |-> <<2, 2>>, dateo_hour |-> 0]

\* The STNS record : station k is named by the letter after '@' + k and a
\* blank; 'offset' is added to every byte.
StnsRecord(offset) ==
  [present |-> TRUE,
   d |-> [k \in 1..NStations |-> <<64 + k + offset, 32 + offset>>],
   shape |-> <<NStations, 2>>, dateo_hour |-> 0]

\* The HH record : hours of validity, for a date of origin at hour 12.
HHWhole == [Record1D(<<12 * HourUnits, 18 * HourUnits>>) EXCEPT !.dateo_hour = 12]

\* Hours of validity that are not whole seconds after the date of origin,
\* the first one before it.
HHFraction == [Record1D(<<12 * HourUnits - 1, 13 * HourUnits + 1>>) EXCEPT !.dateo_hour = 12]

\* A STNS record whose names end with a separator character (FS) in place
\* of the blank.
StnsSeparators ==
  [StnsRecord(0) EXCEPT !.d = [k \in 1..NStations |-> <<64 + k, 28>>]]

\* A STNS record whose names end with a no-break space (U+00A0 in utf-8).
StnsNoBreakSpace ==
  [StnsRecord(0) EXCEPT !.d = [k \in 1..NStations |-> <<64 + k, 194, 160>>],
                        !.shape = <<NStations, 3>>]

\* A STNS record whose second name holds a byte that utf-8 cannot decode.
StnsNotAscii ==
  [StnsRecord(0) EXCEPT !.d = [StnsRecord(0).d EXCEPT ![2] = <<66, 200>>]]

\* A STNS record whose second name is a letter that is not ASCII (U+00E9).
StnsAccented ==
  [StnsRecord(0) EXCEPT !.d = [StnsRecord(0).d EXCEPT ![2] = <<195, 169>>]]

NoHeaders ==
  [c \in {"typvar", "grtyp", "ip1", "ip3", "ig1", "ig2", "ig3", "ig4"} |-> <<>>]

DefaultOpts ==
  [momentum_vars |-> {}, thermo_vars |-> {},
   missing_bottom_profile_level |-> FALSE, squash_forecasts |-> FALSE]

DefaultFiles == [stns |-> StnsRecord(0), hh |-> HHWhole, sh |-> Absent, sv |-> Absent]

\* What every input has in common.
InitCommon ==
  /\ pc = "new"
  /\ idx = 0
  /\ objs = RawAxes
  /\ coords = <<>>
  /\ station = None
  /\ forecast_axis = None
  /\ momentum = None
  /\ thermo = None
  /\ known_levels = <<>>
  /\ known_squashed_forecasts = <<>>
  /\ known_leadtimes = <<>>
  /\ known_reftimes = <<>>
  /\ groups = <<>>
  /\ warnings = <<>>

\* Record tables of up to MaxRecs rows, with or without the leadtime and
\* reftime columns; no variables.
HeaderRows ==
  [typvar : {"T ", "P "}, grtyp : {"+", "Y", "T", "Z"}, ip3 : {7},
   ig : {0, 3}, masks : {<<FALSE, FALSE>>, <<TRUE, FALSE>>, <<FALSE, TRUE>>}]

HeaderTable(rows, has_leadtime, has_reftime) ==
  LET col(f(_)) == [k \in DOMAIN rows |-> f(rows[k])]
      base == [typvar |-> col(LAMBDA r : r.typvar),
               grtyp |-> col(LAMBDA r : r.grtyp),
               ip1 |-> col(LAMBDA r : r.ig + 2),
               ip3 |-> col(LAMBDA r : r.ip3),
               ig1 |-> col(LAMBDA r : r.ig),
               ig2 |-> col(LAMBDA r : r.ig + 1),
               ig3 |-> col(LAMBDA r : r.ig),
               ig4 |-> col(LAMBDA r : r.ig + 1)]
      lead == IF has_leadtime
              THEN "leadtime" :> col(LAMBDA r : [v |-> 6, mask |-> r.masks[1]])
              ELSE <<>>
      ref == IF has_reftime
             THEN "reftime" :> col(LAMBDA r : [v |-> 100, mask |-> r.masks[2]])
             ELSE <<>>
  IN  base @@ lead @@ ref

InitRecords ==
  /\ InitCommon
  /\ \E rows \in SeqUpTo(HeaderRows, MaxRecs), hl \in BOOLEAN, hr \in BOOLEAN :
       headers = HeaderTable(rows, hl, hr)
  /\ opts = DefaultOpts
  /\ files = [stns |-> Absent, hh |-> Absent, sh |-> Absent, sv |-> Absent]
  /\ varlist = <<>>

\* The configured momentum and thermodynamic lists; a variable is on one
\* kind of level at most.
LevelLists == {<<{}, {}>>, <<{"TT"}, {}>>, <<{}, {"TT"}>>, <<{"TT"}, {"UU"}>>}

\* Profile variables with every kind of 'i' axis, under every configuration
\* of the vertical axes.
RemapVars ==
  {ProfileVar(n, 7, 1, 9, i) : n \in {"TT", "UU"}, i \in 11..14}
    \cup {PlainVar("PN", 1, 9, 13)}

InitRemap ==
  /\ InitCommon
  /\ headers = NoHeaders
  /\ \E lists \in LevelLists, mb \in BOOLEAN :
       opts = [momentum_vars |-> lists[1], thermo_vars |-> lists[2],
               missing_bottom_profile_level |-> mb, squash_forecasts |-> FALSE]
  /\ \E sv \in {Absent, Record1D(<<11, 21, 31>>), Record2D},
        sh \in {Absent, Record1D(<<10, 20, 30>>), Record1D(<<10, 20, 30, 40>>),
               Record1D(<<10>>)} :
       files = [DefaultFiles EXCEPT !.sv = sv, !.sh = sh]
  /\ varlist \in SeqUpTo(RemapVars, MaxVars)

\* Variables with every kind of time and forecast axis, squashing requested.
SquashVars ==
  {ProfileVar("TT", 7, t, j, i) : t \in 1..3, j \in 9..10, i \in 13..14}
    \cup {Var("PF", "P", "Z", <<t, 16>>, <<10, 13>>) : t \in {1, 3}}
    \cup {PlainVar("PN", 1, 9, 13)}

InitSquash ==
  /\ InitCommon
  /\ headers = NoHeaders
  /\ opts = [DefaultOpts EXCEPT !.squash_forecasts = TRUE]
  /\ \E hh \in {Absent, HHWhole, HHFraction} : files = [DefaultFiles EXCEPT !.hh = hh]
  /\ varlist \in SeqUpTo(SquashVars, MaxVars)

\* Variables with every kind of station axis, with and without station names.
BindVars ==
  {ProfileVar("TT", s, 1, 9, 11) : s \in 5..8}
    \cup {YVar("YY", 1, i) : i \in {12, 15}}
    \cup {PlainVar("PN", 1, 9, 13)}

InitBind ==
  /\ InitCommon
  /\ headers = NoHeaders
  /\ opts = DefaultOpts
  /\ \E stns \in {Absent, StnsRecord(0), StnsRecord(128), StnsSeparators,
                   StnsNoBreakSpace, StnsNotAscii, StnsAccented} :
       files = [DefaultFiles EXCEPT !.stns = stns]
  /\ varlist \in SeqUpTo(BindVars, MaxVars)

Init == InitRecords \/ InitRemap \/ InitSquash \/ InitBind

Next ==
  \/ SeriesInit
  \/ Extract
  \/ RenameStation
  \/ DropLevel
  \/ Remap
  \/ Squash
  \/ Bind

Spec == Init /\ [][Next]_vars

(***************************************************************************)
(* Properties of the record classifier.                                    *)
(***************************************************************************)
Constructed == pc # "new"

\* C1 : after construction the station_id of a record is unmasked and equal
\* to its ip3 as a signed 32-bit integer exactly when the record has typvar
\* 'T' and grtyp '+'; the station_id of every other record is masked.
C1_StationIdExactlySplitSeries ==
  Constructed =>
    \A k \in 1..nrecs :
      LET split == headers["typvar"][k] = "T " /\ headers["grtyp"][k] = "+"
          sid == headers["station_id"][k]
      IN  /\ sid.mask = ~split
          /\ split => sid.v = Int32(headers["ip3"][k])

C1_Witness ==
  /\ Constructed
  /\ \E k \in 1..nrecs :
       /\ headers["typvar"][k] = "T " /\ headers["grtyp"][k] = "+"
       /\ ~headers["station_id"][k].mask
       /\ headers["station_id"][k].v = 7

\* C2 : the constructor leaves every series record (typvar 'T', grtyp '+',
\* 'Y' or 'T') with leadtime and reftime masked, when those columns exist,
\* and with ig1..ig4 and ip1 equal to 0; every other record keeps its
\* ig1..ig4 and ip1 and the leadtime / reftime mask it had.
C2_SeriesRecordsCleared ==
  [][pc = "new" =>
       \A k \in 1..nrecs :
         LET series == headers["typvar"][k] = "T " /\ headers["grtyp"][k] \in {"+", "Y", "T"}
         IN  /\ \A c \in {"leadtime", "reftime"} \cap DOMAIN headers :
                  /\ c \in DOMAIN headers'
                  /\ headers'[c][k].mask = (IF series THEN TRUE ELSE headers[c][k].mask)
                  /\ headers'[c][k].v = headers[c][k].v
             /\ \A c \in {"ig1", "ig2", "ig3", "ig4", "ip1"} :
                  headers'[c][k] = (IF series THEN 0 ELSE headers[c][k])
             /\ \A c \in {"typvar", "grtyp", "ip3"} : headers'[c][k] = headers[c][k]
  ]_vars

C2_Witness ==
  /\ Constructed
  /\ {"leadtime", "reftime"} \subseteq DOMAIN headers
  /\ \E k \in 1..nrecs :
       /\ headers["typvar"][k] = "T " /\ headers["grtyp"][k] = "Y"
       /\ headers["leadtime"][k].mask /\ headers["reftime"][k].mask
       /\ headers["ig2"][k] = 0 /\ headers["ip1"][k] = 0

(***************************************************************************)
(* Properties of _makevars.                                                *)
(***************************************************************************)
Last(q) == q[Len(q)]

Injective(f) == \A x, y \in DOMAIN f : x # y => f[x] # f[y]

\* The axis objects that were created during the pass.
Created(a) == a > Len(RawAxes)

\* The position in var of a raw 'i' dimension with more than one level.
RawLevelPositions(var) ==
  {p \in DOMAIN var.axes :
     /\ ~Created(var.axes[p])
     /\ RawAxes[var.axes[p]].name = "i"
     /\ RawAxes[var.axes[p]].n > 1}

\* C3 : a profile variable whose raw 'i' axis has n > 1 levels ends up with
\* the momentum (resp. thermodynamic) axis in that position and kind = 5
\* exactly when its name is in the momentum (resp. thermodynamic) list and
\* that axis exists with length n; otherwise the position holds a generic
\* valueless 'level' dimension of length n, a warning is recorded and kind
\* is not set.
C3_LevelRemapExact ==
  [][pc = "remap" /\ IsProfile(varlist[idx]) =>
       \A p \in RawLevelPositions(varlist[idx]) :
         LET var == varlist[idx]
             new == varlist'[idx]
             n == RawAxes[var.axes[p]].n
             mom_ok == var.name \in opts.momentum_vars /\ momentum # None /\ objs[momentum].n = n
             th_ok == var.name \in opts.thermo_vars /\ thermo # None /\ objs[thermo].n = n
         IN  /\ (momentum # None /\ new.axes[p] = momentum /\ new.kind = 5) <=> mom_ok
             /\ (thermo # None /\ new.axes[p] = thermo /\ new.kind = 5) <=> th_ok
             /\ (~mom_ok /\ ~th_ok) =>
                  /\ objs'[new.axes[p]] = Dim("level", n)
                  /\ Len(warnings') > Len(warnings)
                  /\ new.kind = None
  ]_vars

\* C4 (as amended) : squashing a variable with a 'time' axis of length 1
\* (origin T0) and a 'forecast' axis of hours h removes the time axis, keeps
\* the order of the other axes, and puts in the place of the forecast axis a
\* 'time' axis whose k-th value is T0 plus h[k] hours with the fraction of a
\* second dropped.
C4_SquashTruncatedSeconds ==
  [][pc = "squash" =>
       LET var == varlist[idx]
           new == varlist'[idx]
           time == GetAxis(objs, var, "time")
           forecast == GetAxis(objs, var, "forecast")
       IN  (time # None /\ forecast # None /\ objs[time].n = 1) =>
             LET tp == IndexOf(Dims(objs, var), "time")
                 fp == IndexOf(Dims(objs, var), "forecast")
                 rest == RemoveAt(var.axes, tp)
                 q == IF tp < fp THEN fp - 1 ELSE fp
                 T0 == objs[time].vals[1]
                 h == objs[forecast].vals
                 held == objs'[new.axes[q]]
             IN  /\ Len(new.axes) = Len(var.axes) - 1
                 /\ time \notin Range(new.axes)
                 /\ \A k \in DOMAIN rest : k # q => new.axes[k] = rest[k]
                 /\ held.name = "time"
                 /\ Len(held.vals) = Len(h)
                 /\ \A k \in DOMAIN h :
                      LET lead == IF h[k] >= 0 THEN h[k] \div Resolution
                                      ELSE -((-h[k]) \div Resolution)
                      IN  held.vals[k] = ((T0 \div Resolution) + lead) * Resolution
  ]_vars

\* C4 (as claimed) : the k-th value of the squashed time axis is T0 + h[k]
\* hours, for every k.
C4_SquashExactHours ==
  [][pc = "squash" =>
       LET var == varlist[idx]
           new == varlist'[idx]
           time == GetAxis(objs, var, "time")
           forecast == GetAxis(objs, var, "forecast")
       IN  (time # None /\ forecast # None /\ objs[time].n = 1) =>
             LET tp == IndexOf(Dims(objs, var), "time")
                 fp == IndexOf(Dims(objs, var), "forecast")
                 rest == RemoveAt(var.axes, tp)
                 q == IF tp < fp THEN fp - 1 ELSE fp
                 T0 == objs[time].vals[1]
                 h == objs[forecast].vals
                 held == objs'[new.axes[q]]
             IN  /\ Len(new.axes) = Len(var.axes) - 1
                 /\ time \notin Range(new.axes)
                 /\ \A k \in DOMAIN rest : k # q => new.axes[k] = rest[k]
                 /\ held.name = "time"
                 /\ Len(held.vals) = Len(h)
                 /\ \A k \in DOMAIN h : held.vals[k] = T0 + h[k]
  ]_vars

\* A variable squashed onto validity times that are not T0 + whole hours.
C4_Witness ==
  /\ pc = "done"
  /\ \E v \in DOMAIN varlist :
       /\ Len(varlist[v].axes) = 3
       /\ \E a \in Range(varlist[v].axes) :
            /\ Created(a)
            /\ objs[a].name = "time"
            /\ objs[a].vals = <<TimeA, TimeA + HourUnits>>

\* The squashed time axes held by var.
SquashedAxes(var) == {a \in Range(var.axes) : Created(a) /\ objs[a].name = "time"}

\* The generic level dimensions held by var.
GenericAxes(var) ==
  {a \in Range(var.axes) : Created(a) /\ objs[a].name = "level" /\ ~objs[a].valued}

Count(q, x) == Cardinality({k \in DOMAIN q : q[k] = x})

\* Every cached object stays cached under its key.
CachesKept ==
  /\ \A k \in DOMAIN known_squashed_forecasts :
       /\ k \in DOMAIN known_squashed_forecasts'
       /\ known_squashed_forecasts'[k] = known_squashed_forecasts[k]
       /\ known_leadtimes'[k] = known_leadtimes[k]
       /\ known_reftimes'[k] = known_reftimes[k]
  /\ \A n \in DOMAIN known_levels :
       n \in DOMAIN known_levels' /\ known_levels'[n] = known_levels[n]

\* Distinct keys have distinct objects; a squashed variable holds the
\* objects of one key, its leadtime and reftime once each; a generic level
\* dimension is the one cached for its length.
OneInstancePerKey ==
  /\ DOMAIN known_leadtimes = DOMAIN known_squashed_forecasts
  /\ DOMAIN known_reftimes = DOMAIN known_squashed_forecasts
  /\ Injective(known_squashed_forecasts)
  /\ Injective(known_leadtimes)
  /\ Injective(known_reftimes)
  /\ Injective(known_levels)
  /\ \A v \in DOMAIN varlist :
       /\ \A a \in SquashedAxes(varlist[v]) :
            \E key \in DOMAIN known_squashed_forecasts :
              /\ known_squashed_forecasts[key] = a
              /\ Count(varlist[v].deps, known_leadtimes[key]) = 1
              /\ Count(varlist[v].deps, known_reftimes[key]) = 1
              /\ \A k \in DOMAIN varlist[v].deps :
                   coords[varlist[v].deps[k]].name \in {"leadtime", "reftime"} =>
                     varlist[v].deps[k] \in {known_leadtimes[key], known_reftimes[key]}
       /\ \A a \in GenericAxes(varlist[v]) :
            /\ objs[a].n \in DOMAIN known_levels
            /\ known_levels[objs[a].n] = a

\* C5 : one shared instance per cache key within a pass.  Two squashed
\* variables that had the same (time axis, forecast axis) pair hold the same
\* squashed time axis, leadtime and reftime objects (each appended once per
\* variable); two profile variables that fall back to a generic level
\* dimension of the same length hold the same object; distinct keys never
\* share an instance.
C5_OneSharedInstancePerKey ==
  /\ []OneInstancePerKey
  /\ [][/\ CachesKept
        /\ pc = "squash" =>
             LET var == varlist[idx]
                 new == varlist'[idx]
                 time == GetAxis(objs, var, "time")
                 forecast == GetAxis(objs, var, "forecast")
             IN  (time # None /\ forecast # None /\ objs[time].n = 1) =>
                   /\ <<time, forecast>> \in DOMAIN known_squashed_forecasts'
                   /\ known_squashed_forecasts'[<<time, forecast>>] \in Range(new.axes)
                   /\ new.deps = var.deps \o <<known_leadtimes'[<<time, forecast>>],
                                               known_reftimes'[<<time, forecast>>]>>
        /\ pc = "remap" /\ IsProfile(varlist[idx]) =>
             \A p \in RawLevelPositions(varlist[idx]) :
               LET n == RawAxes[varlist[idx].axes[p]].n
                   held == varlist'[idx].axes[p]
               IN  (Created(held) /\ ~objs'[held].valued) =>
                     n \in DOMAIN known_levels' /\ known_levels'[n] = held
     ]_vars

\* Two variables that share one squashed time axis and one generic level
\* dimension, the latter in place of two distinct raw 'i' dimensions.
C5_Witness ==
  /\ pc = "done"
  /\ Len(varlist) >= 2
  /\ SquashedAxes(varlist[1]) # {}
  /\ SquashedAxes(varlist[1]) = SquashedAxes(varlist[2])
  /\ GenericAxes(varlist[1]) # {}
  /\ GenericAxes(varlist[1]) = GenericAxes(varlist[2])
  /\ Len(warnings) = 2
  /\ varlist[1].deps = varlist[2].deps

\* C6 : for a station_id axis whose length differs from the number N of
\* canonical stations, every variable of the group gets exactly one station
\* coordinate appended to its deps, whose k-th row is the canonical row at
\* index (k-th station_id value - 1); the station_id axis of the variable
\* and its values are left as they were.
C6_SubsetCoordinate ==
  [][pc = "bind" =>
       LET g == groups[idx]
           s == objs[g.axis].vals
       IN  objs[g.axis].n # Len(coords[station].array) =>
             \A v \in Range(g.vars) :
               LET var == varlist[v]
                   new == varlist'[v]
                   c == coords'[Last(new.deps)]
               IN  /\ new.axes = var.axes
                   /\ objs'[g.axis] = objs[g.axis]
                   /\ Len(new.deps) = Len(var.deps) + 1
                   /\ SubSeq(new.deps, 1, Len(var.deps)) = var.deps
                   /\ c.name = "station"
                   /\ Len(c.array) = Len(s)
                   /\ \A k \in DOMAIN s : c.array[k] = coords[station].array[s[k]]
  ]_vars

\* Station numbers <<N, 1>> bound to the last and the first station name.
C6_Witness ==
  /\ pc = "done"
  /\ station # None
  /\ \E v \in DOMAIN varlist :
       /\ 7 \in Range(varlist[v].axes)
       /\ Len(varlist[v].deps) = 1
       /\ coords[varlist[v].deps[1]].array = <<<<64 + NStations, 0>>, <<65, 0>>>>

\* A shape mismatch that the final state still shows for var.
Mismatched(var) ==
  \/ /\ IsY(var) /\ station # None
     /\ \E a \in Range(var.axes) :
          objs[a].name = "i" /\ objs[a].n # Len(coords[station].array)
  \/ /\ IsProfile(var) /\ forecast_axis # None
     /\ \E a \in Range(var.axes) :
          objs[a].name = "j" /\ objs[a].n # objs[forecast_axis].n
  \/ /\ IsProfile(var)
     /\ \E a \in Range(var.axes) :
          /\ objs[a].name = "level" /\ ~objs[a].valued
          /\ \/ var.name \in opts.momentum_vars /\ momentum # None /\ objs[a].n # objs[momentum].n
             \/ var.name \in opts.thermo_vars /\ thermo # None /\ objs[a].n # objs[thermo].n
  \/ /\ station # None
     /\ \E a \in Range(var.axes) :
          objs[a].name = "station_id" /\ objs[a].n # Len(coords[station].array)

\* C7 : every shape mismatch met in _makevars ('Y' variable against the
\* station count, 'j' against the forecast axis, 'i' against the configured
\* momentum / thermodynamic axis, station_id group against the station
\* count) comes with at least one warning that names the variable.
C7_MismatchesWarned ==
  pc = "done" =>
    \A v \in DOMAIN varlist :
      Mismatched(varlist[v]) =>
        \E k \in DOMAIN warnings : warnings[k].var = varlist[v].name

\* C8 : no axis object is changed in place during _makevars, so that the
\* name, length and values seen through any reference stay the same.
C8_NoAxisMutated ==
  [][\A a \in DOMAIN objs : a \in DOMAIN objs' /\ objs'[a] = objs[a]]_vars

\* The outer axes of var match the shape of record_id, and its inner axes
\* span the values of one record.
ShapeConforms(var) ==
  /\ Len(var.record_id) <= Len(var.axes)
  /\ \A k \in DOMAIN var.record_id : objs[var.axes[k]].n = var.record_id[k]
  /\ Prod([k \in 1..(Len(var.axes) - Len(var.record_id)) |->
             objs[var.axes[Len(var.record_id) + k]].n]) = var.nrec

\* C9 : every step of _makevars keeps the axes of each variable conformant
\* with its data: the outer axes match record_id dimension by dimension,
\* the inner axes span one record; a replaced axis has the length of the
\* one it replaces and a removed axis has length 1.
C9_ShapeConformance == \A v \in DOMAIN varlist : ShapeConforms(varlist[v])

\* A profile variable after level drop, remapping and squashing: station_id,
\* squashed time and generic level remain.
C9_Witness ==
  /\ pc = "done"
  /\ \E v \in DOMAIN varlist :
       /\ IsProfile(varlist[v])
       /\ Len(varlist[v].axes) = 3
       /\ varlist[v].record_id = <<2>>
       /\ SquashedAxes(varlist[v]) # {}
       /\ GenericAxes(varlist[v]) # {}

\* C10 : after binding, the k-th row of the station coordinate attached to a
\* variable is the canonical name of station number s[k], where s are the
\* values its station_id axis had, in the subset branch and in the branch
\* that rebinds the variable to the canonical axis and coordinate.
C10_NamesFollowIds ==
  [][pc = "bind" =>
       LET g == groups[idx]
           s == objs[g.axis].vals
       IN  objs[g.axis].valued =>
             \A v \in Range(g.vars) :
               LET c == coords'[Last(varlist'[v].deps)]
               IN  /\ c.name = "station"
                   /\ Len(c.array) = Len(s)
                   /\ \A k \in DOMAIN s : c.array[k] = coords[station].array[s[k]]
  ]_vars

====
